---- MODULE Spec2Model ----
(***************************************************************************)
(* Model of modules/messages/src/weights_ext.rs: the weight formulas of    *)
(* the messages pallet (trait WeightInfoExt) and the three configuration   *)
(* guards ensure_weights_are_correct, ensure_able_to_receive_message and   *)
(* ensure_able_to_receive_confirmation.                                    *)
(*                                                                         *)
(* A Weight is the pair (ref_time, proof_size) of u64 values.  Sizes are   *)
(* u32.  TLC's integers are 32 bit wide, so both widths are scaled down:   *)
(* u32 is modelled with U32Bits bits and u64 with U64Bits bits.  The       *)
(* program constants (128, 1024, 1024, 15 * 1024) keep their values and    *)
(* stay below the scaled u32 range, as they are below the real one.        *)
(*                                                                         *)
(* Rust's plain operators (+, -, * on u32 / u64) panic on overflow when    *)
(* the build has overflow checks enabled and wrap around when it has not.  *)
(* The build is not fixed by the source, so overflow_checks is chosen      *)
(* nondeterministically in Init.                                           *)
(***************************************************************************)
EXTENDS Integers, Naturals, Sequences, FiniteSets, TLC

VARIABLES samples, overflow_checks, op, arg, ret

vars == <<samples, overflow_checks, op, arg, ret>>

(***************************************************************************)
(* Widths (scaled) and program constants.                                  *)
(***************************************************************************)
U32Bits == 15

U64Bits == 24

U32Modulus == 2^U32Bits

U64Modulus == 2^U64Bits

U32Max == U32Modulus - 1

U64Max == U64Modulus - 1

EXPECTED_DEFAULT_MESSAGE_LENGTH == 128

SIGNED_EXTENSIONS_SIZE == 1024

EXTRA_STORAGE_PROOF_SIZE == 1024

(***************************************************************************)
(* frame_support::weights::Weight and the operations the source uses.      *)
(***************************************************************************)
Wt(r, p) == [ref_time |-> r, proof_size |-> p]

Zero == Wt(0, 0)

\* outcome of a call: it panicked, or it returned value
Ok(w) == [panic |-> FALSE, value |-> w]

Panic == [panic |-> TRUE, value |-> Zero]

\* u32::saturating_add / saturating_sub / saturating_mul
u32_saturating_add(a, b) == IF a + b > U32Max THEN U32Max ELSE a + b

u32_saturating_sub(a, b) == IF a < b THEN 0 ELSE a - b

u32_saturating_mul(a, b) == IF b # 0 /\ a > U32Max \div b THEN U32Max ELSE a * b

\* u64::saturating_add / saturating_sub / saturating_mul
u64_saturating_add(a, b) == IF a + b > U64Max THEN U64Max ELSE a + b

u64_saturating_sub(a, b) == IF a < b THEN 0 ELSE a - b

u64_saturating_mul(a, b) == IF b # 0 /\ a > U64Max \div b THEN U64Max ELSE a * b

\* Weight::saturating_add(self, rhs: Weight)
saturating_add(x, y) ==
    Wt(u64_saturating_add(x.ref_time, y.ref_time),
       u64_saturating_add(x.proof_size, y.proof_size))

\* Weight::saturating_sub(self, rhs: Weight)
saturating_sub(x, y) ==
    Wt(u64_saturating_sub(x.ref_time, y.ref_time),
       u64_saturating_sub(x.proof_size, y.proof_size))

\* Weight::saturating_mul(self, scalar: u64)
saturating_mul(x, n) ==
    Wt(u64_saturating_mul(x.ref_time, n), u64_saturating_mul(x.proof_size, n))

\* Weight::all_lte(self, other)
all_lte(x, y) == x.ref_time <= y.ref_time /\ x.proof_size <= y.proof_size

\* impl Sub for Weight: the plain u64 `-` on both components
weight_sub(x, y) ==
    IF x.ref_time < y.ref_time \/ x.proof_size < y.proof_size
    THEN IF overflow_checks
         THEN Panic
         ELSE Ok(Wt((x.ref_time + U64Modulus - y.ref_time) % U64Modulus,
                    (x.proof_size + U64Modulus - y.proof_size) % U64Modulus))
    ELSE Ok(Wt(x.ref_time - y.ref_time, x.proof_size - y.proof_size))

\* impl Div<T> for Weight: integer division of both components
weight_div(x, d) == Wt(x.ref_time \div d, x.proof_size \div d)

\* impl Mul<Weight> for u32: the plain u64 `*` on both components
u32_mul_weight(n, x) ==
    IF n * x.ref_time > U64Max \/ n * x.proof_size > U64Max
    THEN IF overflow_checks
         THEN Panic
         ELSE Ok(Wt((n * x.ref_time) % U64Modulus, (n * x.proof_size) % U64Modulus))
    ELSE Ok(Wt(n * x.ref_time, n * x.proof_size))

\* impl Size for PreComputedSize: u32::try_from(self.0).unwrap_or(u32::MAX)
PreComputedSize_size(n) == IF n > U32Max THEN U32Max ELSE n

\* the plain u32 `+`; panic is reported as -1
u32_add(a, b) ==
    IF a + b > U32Max
    THEN IF overflow_checks THEN -1 ELSE (a + b) % U32Modulus
    ELSE a + b

(***************************************************************************)
(* trait WeightInfoExt                                                     *)
(***************************************************************************)
expected_extra_storage_proof_size == EXTRA_STORAGE_PROOF_SIZE

\* receive_messages_proof_overhead with the doubling of the single message weight lost
receive_messages_proof_overhead_without_doubling ==
    saturating_sub(samples.receive_single_message_proof, samples.receive_two_messages_proof)

receive_messages_proof_overhead ==
    LET weight_of_two_messages_and_two_tx_overheads ==
            saturating_mul(samples.receive_single_message_proof, 2)
        weight_of_two_messages_and_single_tx_overhead ==
            samples.receive_two_messages_proof
    IN  saturating_sub(weight_of_two_messages_and_two_tx_overheads,
                       weight_of_two_messages_and_single_tx_overhead)

receive_messages_proof_messages_overhead(messages) ==
    LET weight_of_two_messages_and_single_tx_overhead ==
            samples.receive_two_messages_proof
        weight_of_single_message_and_single_tx_overhead ==
            samples.receive_single_message_proof
    IN  saturating_mul(
            saturating_sub(weight_of_two_messages_and_single_tx_overhead,
                           weight_of_single_message_and_single_tx_overhead),
            messages)

receive_messages_proof_outbound_lane_state_overhead ==
    LET weight_of_single_message_and_lane_state ==
            samples.receive_single_message_proof_with_outbound_lane_state
        weight_of_single_message == samples.receive_single_message_proof
    IN  saturating_sub(weight_of_single_message_and_lane_state, weight_of_single_message)

receive_messages_delivery_proof_overhead ==
    LET weight_of_two_messages_and_two_tx_overheads ==
            saturating_mul(samples.receive_delivery_proof_for_single_message, 2)
        weight_of_two_messages_and_single_tx_overhead ==
            samples.receive_delivery_proof_for_two_messages_by_single_relayer
    IN  saturating_sub(weight_of_two_messages_and_two_tx_overheads,
                       weight_of_two_messages_and_single_tx_overhead)

receive_messages_delivery_proof_messages_overhead(messages) ==
    LET weight_of_two_messages ==
            samples.receive_delivery_proof_for_two_messages_by_single_relayer
        weight_of_single_message == samples.receive_delivery_proof_for_single_message
    IN  saturating_mul(saturating_sub(weight_of_two_messages, weight_of_single_message),
                       messages)

receive_messages_delivery_proof_relayers_overhead(relayers) ==
    LET weight_of_two_messages_by_two_relayers ==
            samples.receive_delivery_proof_for_two_messages_by_two_relayers
        weight_of_two_messages_by_single_relayer ==
            samples.receive_delivery_proof_for_two_messages_by_single_relayer
    IN  saturating_mul(saturating_sub(weight_of_two_messages_by_two_relayers,
                                      weight_of_two_messages_by_single_relayer),
                       relayers)

storage_proof_size_overhead(proof_size) ==
    LET proof_size_in_bytes == proof_size
        difference == weight_sub(samples.receive_single_message_proof_16_kb,
                                 samples.receive_single_message_proof_1_kb)
    IN  IF difference.panic
        THEN Panic
        ELSE LET byte_weight == weight_div(difference.value, 15 * 1024)
             IN  u32_mul_weight(proof_size_in_bytes, byte_weight)

receive_messages_proof_weight(proof, messages_count, dispatch_weight) ==
    LET transaction_overhead == receive_messages_proof_overhead
        outbound_state_delivery_weight ==
            receive_messages_proof_outbound_lane_state_overhead
        messages_delivery_weight ==
            receive_messages_proof_messages_overhead(messages_count)
        messages_dispatch_weight == dispatch_weight
        expected_proof_size ==
            u32_saturating_add(
                u32_saturating_mul(EXPECTED_DEFAULT_MESSAGE_LENGTH,
                                   u32_saturating_sub(messages_count, 1)),
                expected_extra_storage_proof_size)
        actual_proof_size == proof
        proof_size_overhead ==
            storage_proof_size_overhead(
                u32_saturating_sub(actual_proof_size, expected_proof_size))
    IN  IF proof_size_overhead.panic
        THEN Panic
        ELSE Ok(saturating_add(
                    saturating_add(
                        saturating_add(
                            saturating_add(transaction_overhead,
                                           outbound_state_delivery_weight),
                            messages_delivery_weight),
                        messages_dispatch_weight),
                    proof_size_overhead.value))

receive_messages_delivery_proof_weight(proof, total_messages, unrewarded_relayer_entries) ==
    LET transaction_overhead == receive_messages_delivery_proof_overhead
        messages_overhead ==
            receive_messages_delivery_proof_messages_overhead(total_messages)
        relayers_overhead ==
            receive_messages_delivery_proof_relayers_overhead(unrewarded_relayer_entries)
        expected_proof_size == expected_extra_storage_proof_size
        actual_proof_size == proof
        proof_size_overhead ==
            storage_proof_size_overhead(
                u32_saturating_sub(actual_proof_size, expected_proof_size))
    IN  IF proof_size_overhead.panic
        THEN Panic
        ELSE Ok(saturating_add(
                    saturating_add(
                        saturating_add(transaction_overhead, messages_overhead),
                        relayers_overhead),
                    proof_size_overhead.value))

(***************************************************************************)
(* The configuration guards.  A failed assertion is a panic; a guard that  *)
(* returns, returns ().                                                    *)
(***************************************************************************)
ensure_weights_are_correct ==
    IF receive_messages_proof_overhead = Zero THEN Panic
    ELSE IF receive_messages_proof_messages_overhead(1) = Zero THEN Panic
    ELSE IF receive_messages_proof_outbound_lane_state_overhead = Zero THEN Panic
    ELSE IF storage_proof_size_overhead(1).panic THEN Panic
    ELSE IF storage_proof_size_overhead(1).value = Zero THEN Panic
    ELSE IF receive_messages_delivery_proof_overhead = Zero THEN Panic
    ELSE Ok(Zero)

ensure_able_to_receive_message(max_extrinsic_size, max_extrinsic_weight, max_incoming_message_proof_size, max_incoming_message_dispatch_weight) ==
    LET max_delivery_transaction_size ==
            u32_saturating_add(max_incoming_message_proof_size, SIGNED_EXTENSIONS_SIZE)
        proof_size == u32_add(max_incoming_message_proof_size,
                              expected_extra_storage_proof_size)
        max_delivery_transaction_dispatch_weight ==
            receive_messages_proof_weight(PreComputedSize_size(proof_size), 1,
                                          max_incoming_message_dispatch_weight)
    IN  IF ~(max_delivery_transaction_size <= max_extrinsic_size) THEN Panic
        ELSE IF proof_size = -1 THEN Panic
        ELSE IF max_delivery_transaction_dispatch_weight.panic THEN Panic
        ELSE IF ~all_lte(max_delivery_transaction_dispatch_weight.value,
                         max_extrinsic_weight) THEN Panic
        ELSE Ok(Zero)

ensure_able_to_receive_confirmation(max_extrinsic_size, max_extrinsic_weight, max_inbound_lane_data_proof_size_from_peer_chain, max_unrewarded_relayer_entries_at_peer_inbound_lane, max_unconfirmed_messages_at_inbound_lane) ==
    LET max_confirmation_transaction_size ==
            u32_saturating_add(max_inbound_lane_data_proof_size_from_peer_chain,
                               SIGNED_EXTENSIONS_SIZE)
        max_confirmation_transaction_dispatch_weight ==
            receive_messages_delivery_proof_weight(
                PreComputedSize_size(max_inbound_lane_data_proof_size_from_peer_chain),
                max_unconfirmed_messages_at_inbound_lane,
                max_unrewarded_relayer_entries_at_peer_inbound_lane)
    IN  IF ~(max_confirmation_transaction_size <= max_extrinsic_size) THEN Panic
        ELSE IF max_confirmation_transaction_dispatch_weight.panic THEN Panic
        ELSE IF ~all_lte(max_confirmation_transaction_dispatch_weight.value,
                         max_extrinsic_weight) THEN Panic
        ELSE Ok(Zero)

(***************************************************************************)
(* Inputs.  The benchmark samples (trait WeightInfo) are supplied by the   *)
(* runtime; every function of it returns one fixed Weight.                 *)
(***************************************************************************)
SingleMessageProofSamples == {Wt(100, 10), Wt(U64Max, 10)}

TwoMessagesProofSamples == {Wt(50, 10), Wt(150, 15), Wt(250, 15)}

OutboundLaneStateSamples == {Wt(100, 10), Wt(130, 12)}

Proof1KbSamples == {Wt(200, 1024)}

Proof16KbSamples ==
    {Wt(3500, 1124), Wt(3500, 16384), Wt(100, 16384), Wt(U64Max, 16384)}

DeliverySingleMessageSamples == {Wt(10, 1)}

DeliveryTwoMessagesSingleRelayerSamples == {Wt(10, 1), Wt(15, 2)}

DeliveryTwoMessagesTwoRelayersSamples == {Wt(15, 2), Wt(25, 3)}

ProofSizes == {1024, 1152, 3072, U32Max}

OverheadProofSizes == {0, 1, 2048, 15360, U32Max}

MessagesCounts == {0, 1, 2, U32Max}

MessageNonces == {0, 1, 2, 5, U64Max}

RelayersStates == {1, 2}

DispatchWeights == {Zero, Wt(1000, 100)}

MaxExtrinsicSizes == {2048, U32Max}

MaxExtrinsicWeights == {Wt(2000, 2000), Wt(U64Max, U64Max)}

MaxProofSizes == {1024, U32Max}

NoArg ==
    [proof_size |-> 0, messages |-> 0, relayers |-> 0, weight |-> Zero,
     max_size |-> 0, max_weight |-> Zero]

Init ==
    /\ samples \in
         [receive_single_message_proof : SingleMessageProofSamples,
          receive_two_messages_proof : TwoMessagesProofSamples,
          receive_single_message_proof_with_outbound_lane_state : OutboundLaneStateSamples,
          receive_single_message_proof_1_kb : Proof1KbSamples,
          receive_single_message_proof_16_kb : Proof16KbSamples,
          receive_delivery_proof_for_single_message : DeliverySingleMessageSamples,
          receive_delivery_proof_for_two_messages_by_single_relayer :
              DeliveryTwoMessagesSingleRelayerSamples,
          receive_delivery_proof_for_two_messages_by_two_relayers :
              DeliveryTwoMessagesTwoRelayersSamples]
    /\ overflow_checks \in BOOLEAN
    /\ op = "none"
    /\ arg = NoArg
    /\ ret = Ok(Zero)

(***************************************************************************)
(* One action per public function: the call is made with some arguments    *)
(* and its outcome is recorded.                                            *)
(***************************************************************************)
Call(name, a, r) ==
    /\ op' = name
    /\ arg' = a
    /\ ret' = r
    /\ UNCHANGED <<samples, overflow_checks>>

CallEnsureWeightsAreCorrect ==
    Call("ensure_weights_are_correct", NoArg, ensure_weights_are_correct)

CallEnsureAbleToReceiveMessage ==
    \E s \in MaxExtrinsicSizes, w \in MaxExtrinsicWeights,
       p \in MaxProofSizes, d \in DispatchWeights :
        Call("ensure_able_to_receive_message",
             [NoArg EXCEPT !.max_size = s, !.max_weight = w, !.proof_size = p, !.weight = d],
             ensure_able_to_receive_message(s, w, p, d))

CallEnsureAbleToReceiveConfirmation ==
    \E s \in MaxExtrinsicSizes, w \in MaxExtrinsicWeights,
       p \in MaxProofSizes, r \in {2}, m \in RelayersStates :
        Call("ensure_able_to_receive_confirmation",
             [NoArg EXCEPT !.max_size = s, !.max_weight = w, !.proof_size = p,
                           !.relayers = r, !.messages = m],
             ensure_able_to_receive_confirmation(s, w, p, r, m))

CallReceiveMessagesProofWeight ==
    \E p \in ProofSizes, n \in MessagesCounts, d \in DispatchWeights :
        Call("receive_messages_proof_weight",
             [NoArg EXCEPT !.proof_size = p, !.messages = n, !.weight = d],
             receive_messages_proof_weight(p, n, d))

CallReceiveMessagesDeliveryProofWeight ==
    \E p \in ProofSizes, m \in RelayersStates, r \in RelayersStates :
        Call("receive_messages_delivery_proof_weight",
             [NoArg EXCEPT !.proof_size = p, !.messages = m, !.relayers = r],
             receive_messages_delivery_proof_weight(p, m, r))

CallReceiveMessagesProofOverhead ==
    Call("receive_messages_proof_overhead", NoArg, Ok(receive_messages_proof_overhead))

CallReceiveMessagesProofMessagesOverhead ==
    \E n \in MessageNonces :
        Call("receive_messages_proof_messages_overhead",
             [NoArg EXCEPT !.messages = n],
             Ok(receive_messages_proof_messages_overhead(n)))

CallReceiveMessagesProofOutboundLaneStateOverhead ==
    Call("receive_messages_proof_outbound_lane_state_overhead", NoArg,
         Ok(receive_messages_proof_outbound_lane_state_overhead))

CallReceiveMessagesDeliveryProofOverhead ==
    Call("receive_messages_delivery_proof_overhead", NoArg,
         Ok(receive_messages_delivery_proof_overhead))

CallReceiveMessagesDeliveryProofMessagesOverhead ==
    \E n \in RelayersStates :
        Call("receive_messages_delivery_proof_messages_overhead",
             [NoArg EXCEPT !.messages = n],
             Ok(receive_messages_delivery_proof_messages_overhead(n)))

CallReceiveMessagesDeliveryProofRelayersOverhead ==
    \E n \in RelayersStates :
        Call("receive_messages_delivery_proof_relayers_overhead",
             [NoArg EXCEPT !.relayers = n],
             Ok(receive_messages_delivery_proof_relayers_overhead(n)))

CallStorageProofSizeOverhead ==
    \E p \in OverheadProofSizes :
        Call("storage_proof_size_overhead",
             [NoArg EXCEPT !.proof_size = p],
             storage_proof_size_overhead(p))

Next ==
    \/ CallEnsureWeightsAreCorrect
    \/ CallEnsureAbleToReceiveMessage
    \/ CallEnsureAbleToReceiveConfirmation
    \/ CallReceiveMessagesProofWeight
    \/ CallReceiveMessagesDeliveryProofWeight
    \/ CallReceiveMessagesProofOverhead
    \/ CallReceiveMessagesProofMessagesOverhead
    \/ CallReceiveMessagesProofOutboundLaneStateOverhead
    \/ CallReceiveMessagesDeliveryProofOverhead
    \/ CallReceiveMessagesDeliveryProofMessagesOverhead
    \/ CallReceiveMessagesDeliveryProofRelayersOverhead
    \/ CallStorageProofSizeOverhead

Spec == Init /\ [][Next]_vars

TypeOK ==
    /\ overflow_checks \in BOOLEAN
    /\ ret.panic \in BOOLEAN
    /\ ret.value.ref_time \in 0..U64Max
    /\ ret.value.proof_size \in 0..U64Max
    /\ arg.proof_size \in 0..U32Max

(***************************************************************************)
(* The specified quantities, written out independently of the code above:  *)
(* every step clamps at 0 and at U64Max.                                   *)
(***************************************************************************)
Clamp64(x) == IF x < 0 THEN 0 ELSE IF x > U64Max THEN U64Max ELSE x

Max0(x) == IF x < 0 THEN 0 ELSE x

ClampedSub(x, y) == Wt(Clamp64(x.ref_time - y.ref_time), Clamp64(x.proof_size - y.proof_size))

ClampedScale(x, n) ==
    Wt(IF n # 0 /\ x.ref_time > U64Max \div n THEN U64Max ELSE x.ref_time * n,
       IF n # 0 /\ x.proof_size > U64Max \div n THEN U64Max ELSE x.proof_size * n)

ClampedSum(x, y) == Wt(Clamp64(x.ref_time + y.ref_time), Clamp64(x.proof_size + y.proof_size))

ExactSum(x, y) == Wt(x.ref_time + y.ref_time, x.proof_size + y.proof_size)

BaseDeliveryOverhead ==
    ClampedSub(ClampedScale(samples.receive_single_message_proof, 2),
               samples.receive_two_messages_proof)

PerMessageOverhead ==
    ClampedSub(samples.receive_two_messages_proof, samples.receive_single_message_proof)

OutboundStateOverhead ==
    ClampedSub(samples.receive_single_message_proof_with_outbound_lane_state,
               samples.receive_single_message_proof)

BaseConfirmationOverhead ==
    ClampedSub(ClampedScale(samples.receive_delivery_proof_for_single_message, 2),
               samples.receive_delivery_proof_for_two_messages_by_single_relayer)

PerConfirmedMessageOverhead ==
    ClampedSub(samples.receive_delivery_proof_for_two_messages_by_single_relayer,
               samples.receive_delivery_proof_for_single_message)

PerRelayerOverhead ==
    ClampedSub(samples.receive_delivery_proof_for_two_messages_by_two_relayers,
               samples.receive_delivery_proof_for_two_messages_by_single_relayer)

PerProofByteOverhead ==
    LET d == ClampedSub(samples.receive_single_message_proof_16_kb,
                        samples.receive_single_message_proof_1_kb)
    IN  Wt(d.ref_time \div (15 * 1024), d.proof_size \div (15 * 1024))

\* per_proof_byte_overhead x bytes, clamped
ClampedProofSizeOverhead(bytes) == ClampedScale(PerProofByteOverhead, bytes)

\* DEFAULT_MESSAGE_LENGTH x (messages_count - 1) + expected_extra_proof_size
ExpectedProofBytes(messages_count) ==
    EXPECTED_DEFAULT_MESSAGE_LENGTH * Max0(messages_count - 1) + EXTRA_STORAGE_PROOF_SIZE

ExcessProofBytes(actual, expected) == Max0(actual - expected)

\* the term storage_proof_size_overhead(excess) of a total, zero without excess
ProofSizeTerm(excess) ==
    IF excess = 0 THEN Zero ELSE storage_proof_size_overhead(excess).value

DeliveryTotal(messages_count, dispatch_cost, proof_term) ==
    ClampedSum(ClampedSum(ClampedSum(ClampedSum(BaseDeliveryOverhead, OutboundStateOverhead),
                                     ClampedScale(PerMessageOverhead, messages_count)),
                          dispatch_cost),
               proof_term)

ConfirmationTotal(total_messages, relayer_entries, proof_term) ==
    ClampedSum(ClampedSum(ClampedSum(BaseConfirmationOverhead,
                                     ClampedScale(PerConfirmedMessageOverhead, total_messages)),
                          ClampedScale(PerRelayerOverhead, relayer_entries)),
               proof_term)

IsProofWeightCall == op = "receive_messages_proof_weight"

IsDeliveryProofWeightCall == op = "receive_messages_delivery_proof_weight"

(***************************************************************************)
(* Claims                                                                  *)
(***************************************************************************)

\* C1: receive_messages_proof_weight, receive_messages_delivery_proof_weight and
\* storage_proof_size_overhead always return, and every operation in them clamps at
\* 0 and at the maximum: the per-byte rate is 0 when cost(16KB) < cost(1KB), and
\* proof_size x rate is the maximum when it exceeds the maximum.
C1_TotalAndSaturating ==
    /\ op = "storage_proof_size_overhead"
         => ret = Ok(ClampedProofSizeOverhead(arg.proof_size))
    /\ IsProofWeightCall
         => ret = Ok(DeliveryTotal(arg.messages, arg.weight,
                        ClampedProofSizeOverhead(
                            ExcessProofBytes(arg.proof_size, ExpectedProofBytes(arg.messages)))))
    /\ IsDeliveryProofWeightCall
         => ret = Ok(ConfirmationTotal(arg.messages, arg.relayers,
                        ClampedProofSizeOverhead(
                            ExcessProofBytes(arg.proof_size, EXTRA_STORAGE_PROOF_SIZE))))

DecomposedOverheads ==
    {BaseDeliveryOverhead, PerMessageOverhead, OutboundStateOverhead,
     BaseConfirmationOverhead, PerConfirmedMessageOverhead, PerRelayerOverhead,
     PerProofByteOverhead}

\* C2: ensure_weights_are_correct fails whenever at least one of the seven decomposed
\* overhead components is zero.
C2_ZeroOverheadRejected ==
    (op = "ensure_weights_are_correct" /\ Zero \in DecomposedOverheads) => ret.panic

\* C3: ensure_able_to_receive_message fails whenever max_proof_size + 1024, as a
\* mathematical sum, is greater than max_tx_size.
C3_OversizedTransactionRejected ==
    (op = "ensure_able_to_receive_message"
        /\ arg.proof_size + SIGNED_EXTENSIONS_SIZE > arg.max_size) => ret.panic

RoundTripCall == op = "receive_messages_proof_messages_overhead" /\ arg.messages = 1

\* the 1 message and 2 messages samples are consistent with an affine cost:
\* cost(1) <= cost(2) <= 2 x cost(1) in both components, 2 x cost(1) representable
AffineDeliverySamples ==
    LET c1 == samples.receive_single_message_proof
        c2 == samples.receive_two_messages_proof
    IN  /\ c1.ref_time <= c2.ref_time /\ c2.ref_time <= 2 * c1.ref_time
        /\ c1.proof_size <= c2.proof_size /\ c2.proof_size <= 2 * c1.proof_size
        /\ 2 * c1.ref_time <= U64Max /\ 2 * c1.proof_size <= U64Max

\* C4 (as stated): for every pair of samples cost(1 message), cost(2 messages),
\* receive_messages_proof_overhead() + receive_messages_proof_messages_overhead(1)
\* equals cost(1 message).
C4_RoundTripAlways ==
    RoundTripCall
        => ExactSum(receive_messages_proof_overhead, ret.value)
             = samples.receive_single_message_proof

\* C4 (amended): the round trip holds when cost(1) <= cost(2) <= 2 x cost(1) in both
\* components and 2 x cost(1) is representable.
C4_RoundTripAffine ==
    (RoundTripCall /\ AffineDeliverySamples)
        => ExactSum(receive_messages_proof_overhead, ret.value)
             = samples.receive_single_message_proof

C4_Witness ==
    /\ RoundTripCall
    /\ AffineDeliverySamples
    /\ ret.value # Zero
    /\ receive_messages_proof_overhead # Zero

\* C5: the per-message overhead is non-decreasing in the message count and the
\* proof size overhead is non-decreasing in the proof size: of two successive
\* calls, the one with the larger argument does not return less.
C5_OverheadsMonotone ==
    [][/\ (/\ op = "receive_messages_proof_messages_overhead" /\ op' = op
           /\ arg.messages < arg'.messages)
          => all_lte(ret.value, ret'.value)
       /\ (/\ op = "storage_proof_size_overhead" /\ op' = op
           /\ arg.proof_size < arg'.proof_size
           /\ ~ret.panic /\ ~ret'.panic)
          => all_lte(ret.value, ret'.value)]_vars

\* exactly one of the inputs is larger in b than in a, the others are equal
OneInputIncreased(a, b) ==
    \/ a.proof_size < b.proof_size /\ a.messages = b.messages
         /\ a.relayers = b.relayers /\ a.weight = b.weight
    \/ a.proof_size = b.proof_size /\ a.messages < b.messages
         /\ a.relayers = b.relayers /\ a.weight = b.weight
    \/ a.proof_size = b.proof_size /\ a.messages = b.messages
         /\ a.relayers < b.relayers /\ a.weight = b.weight
    \/ a.proof_size = b.proof_size /\ a.messages = b.messages
         /\ a.relayers = b.relayers /\ a.weight # b.weight /\ all_lte(a.weight, b.weight)

\* C6: receive_messages_proof_weight and receive_messages_delivery_proof_weight are
\* non-decreasing in each input taken separately: of two successive calls that
\* both return and differ by one increased input, the second does not return less.
C6_WeightsMonotone ==
    [][(/\ op \in {"receive_messages_proof_weight",
                   "receive_messages_delivery_proof_weight"}
        /\ op' = op
        /\ OneInputIncreased(arg, arg')
        /\ ~ret.panic /\ ~ret'.panic)
       => all_lte(ret.value, ret'.value)]_vars

\* C7: receive_messages_proof_weight returns the clamped sum base + outbound state +
\* per message x messages_count + dispatch cost + storage_proof_size_overhead(excess),
\* excess = max(0, actual - (128 x (messages_count - 1) + expected extra)); the last
\* term is zero when there is no excess.
C7_DeliveryFormula ==
    IsProofWeightCall
        => ret = Ok(DeliveryTotal(arg.messages, arg.weight,
                       ProofSizeTerm(
                           ExcessProofBytes(arg.proof_size, ExpectedProofBytes(arg.messages)))))

\* C8: receive_messages_delivery_proof_weight returns the clamped sum base confirmation
\* + per confirmed message x total_messages + per relayer x unrewarded_relayer_entries
\* + storage_proof_size_overhead(max(0, actual - expected extra)).
C8_ConfirmationFormula ==
    IsDeliveryProofWeightCall
        => ret = Ok(ConfirmationTotal(arg.messages, arg.relayers,
                       ProofSizeTerm(
                           ExcessProofBytes(arg.proof_size, EXTRA_STORAGE_PROOF_SIZE))))

\* C9: with cost(1KB) = 200 and cost(16KB) = 3500, the overhead of 2048 bytes is
\* 2048 x 3300 / 15360 = 440.
C9_ScenarioB ==
    (/\ op = "storage_proof_size_overhead"
     /\ samples.receive_single_message_proof_1_kb.ref_time = 200
     /\ samples.receive_single_message_proof_16_kb.ref_time = 3500
     /\ arg.proof_size = 2048)
        => /\ ~ret.panic
           /\ ret.value.ref_time
                = (arg.proof_size * (samples.receive_single_message_proof_16_kb.ref_time
                                     - samples.receive_single_message_proof_1_kb.ref_time))
                  \div (15 * 1024)

\* C10: once ensure_able_to_receive_message has returned, every delivery of one
\* message with a proof of at most max_proof_size + expected extra bytes and a
\* dispatch weight within max_dispatch_weight weighs at most max_tx_weight.
C10_GuardCoversDeliveries ==
    [][(/\ op = "ensure_able_to_receive_message" /\ ~ret.panic
        /\ op' = "receive_messages_proof_weight"
        /\ arg'.messages = 1
        /\ arg'.proof_size <= arg.proof_size + EXTRA_STORAGE_PROOF_SIZE
        /\ all_lte(arg'.weight, arg.weight))
       => (~ret'.panic /\ all_lte(ret'.value, arg.max_weight))]_vars

(***************************************************************************)
(* What does hold of the code, next to the violated statements above.      *)
(***************************************************************************)

\* whenever receive_messages_proof_weight returns, it returns the stated sum
DeliveryFormulaWhenReturned ==
    (IsProofWeightCall /\ ~ret.panic) => C7_DeliveryFormula

\* whenever receive_messages_delivery_proof_weight returns, it returns the stated sum
ConfirmationFormulaWhenReturned ==
    (IsDeliveryProofWeightCall /\ ~ret.panic) => C8_ConfirmationFormula

\* with overflow checks the `+` of ensure_able_to_receive_message panics where the
\* saturating size check lets an oversized transaction through
OversizedTransactionRejectedWhenChecked ==
    overflow_checks => C3_OversizedTransactionRejected

\* the per-message overhead is non-decreasing in the message count
MessagesOverheadMonotone ==
    [][(/\ op = "receive_messages_proof_messages_overhead" /\ op' = op
        /\ arg.messages < arg'.messages)
       => all_lte(ret.value, ret'.value)]_vars

\* the two weights are non-decreasing in dispatch_weight, total_messages and
\* unrewarded_relayer_entries
WeightsMonotoneInSaturatingInputs ==
    [][(/\ op \in {"receive_messages_proof_weight",
                   "receive_messages_delivery_proof_weight"}
        /\ op' = op
        /\ OneInputIncreased(arg, arg')
        /\ arg.proof_size = arg'.proof_size
        /\ (arg.messages = arg'.messages \/ IsDeliveryProofWeightCall)
        /\ ~ret.panic /\ ~ret'.panic)
       => all_lte(ret.value, ret'.value)]_vars

\* with overflow checks, a guard that returned covers every one-message delivery
GuardCoversDeliveriesWhenChecked ==
    [][(/\ overflow_checks
        /\ op = "ensure_able_to_receive_message" /\ ~ret.panic
        /\ op' = "receive_messages_proof_weight"
        /\ arg'.messages = 1
        /\ arg'.proof_size <= arg.proof_size + EXTRA_STORAGE_PROOF_SIZE
        /\ all_lte(arg'.weight, arg.weight))
       => (~ret'.panic /\ all_lte(ret'.value, arg.max_weight))]_vars

====
